---- MODULE Spec2Model ----
(***************************************************************************)
(* Selection-driven retrieval core of the reader front end:                *)
(*   - the useSemanticSearch hook (debounced, cached, ranked search),      *)
(*   - the SelectionProvider context (selection state and the 500ms        *)
(*     auto-fetch of related sections).                                    *)
(*                                                                         *)
(* Scores are kept exactly, in hundredths: every vector of the model has   *)
(* an integer magnitude dividing 100, so dot*100/(|a|*|b|) is an integer   *)
(* and a threshold of 0.7 is the number 70.                                *)
(*                                                                         *)
(* A text is a record [lead, core]: `lead` blanks followed by the string   *)
(* `core`, which neither starts nor ends with a blank.                     *)
(***************************************************************************)
EXTENDS Integers, Sequences, FiniteSets, TLC

\* ------------------------------------------------------------------ bounds
\* number of performSearch invocations (manual or debounced) explored
MaxCalls == 2
\* milliseconds that pass in one step of the clock
TickMs == 250
\* number of handleTextSelection events explored
MaxSelections == 3
\* number of entries of a corpus handed to the ranking step
MaxCorpus == 3
\* number of events of usePDFSelection explored
MaxPdfEvents == 4

\* --------------------------------------------------------- program constants
\* wait of lodash.debounce in useSemanticSearch
DEBOUNCE_MS == 500
\* useState(0.7), in hundredths
InitialThreshold == 70
\* the minimum selection length the design sets for a search
MIN_QUERY_LENGTH == 10

InitialSearchType == "semantic"
Null == "<null>"

\* ------------------------------------------------------------------- texts
Txt(l, c) == [lead |-> l, core |-> c]
InitialQuery == Txt(0, "")
RawLength(t) == t.lead + Len(t.core)
Trim(t) == [lead |-> 0, core |-> t.core]
\* a guard without the trim: !searchQuery
IsBlank_NoTrim(t) == RawLength(t) = 0

\* !searchQuery.trim()
IsBlank(t) == RawLength(Trim(t)) = 0

\* texts the user types or searches for: a blank one, one shorter than
\* MIN_QUERY_LENGTH and one of exactly that length
Texts == { Txt(0, ""), Txt(0, "hi"), Txt(0, "alpha text") }

\* texts handed to search(text): those, and a text of blanks only
SearchTexts == Texts \cup { Txt(1, "") }

SearchTypes == {"semantic", "keyword"}
\* positions of the threshold slider used by the model (step 0.05)
Thresholds == {70, 90}

\* ------------------------------------------------------------- vector math
RECURSIVE DotFrom(_, _, _)
DotFrom(a, b, i) ==
  IF i > Len(a) THEN 0 ELSE a[i] * b[i] + DotFrom(a, b, i + 1)

Isqrt(n) == CHOOSE r \in 0..n : r * r <= n /\ (r + 1) * (r + 1) > n

NoVector == <<-1>>

\* a product that reads missing components as 0 and has no guard on its
\* arguments
RECURSIVE DotPadded(_, _, _)
DotPadded(a, b, i) ==
  IF i > Len(a) THEN 0
  ELSE a[i] * (IF i <= Len(b) THEN b[i] ELSE 0) + DotPadded(a, b, i + 1)

cosineSimilarity_Unguarded(vecA, vecB) ==
  LET dotProduct == DotPadded(vecA, vecB, 1)
      magA == Isqrt(DotFrom(vecA, vecA, 1))
      magB == Isqrt(DotFrom(vecB, vecB, 1))
  IN IF magA # 0 /\ magB # 0
     THEN (dotProduct * 100) \div (magA * magB)
     ELSE 0

\* if (!vecA || !vecB || vecA.length !== vecB.length) return 0; ...
cosineSimilarity(vecA, vecB) ==
  IF vecA = NoVector \/ vecB = NoVector \/ Len(vecA) # Len(vecB) THEN 0
  ELSE LET dotProduct == DotFrom(vecA, vecB, 1)
           magA == Isqrt(DotFrom(vecA, vecA, 1))
           magB == Isqrt(DotFrom(vecB, vecB, 1))
       IN IF magA # 0 /\ magB # 0
          THEN (dotProduct * 100) \div (magA * magB)
          ELSE 0

\* ------------------------------------------------------- remote collaborators
\* POST /api/embed: the vector the embedding model returns for a text
Embedding(t) ==
  IF t.core = "alpha text" THEN <<1, 0>> ELSE <<3, 4>>

\* GET /api/embeddings: the indexed sections with their vectors
Corpus ==
  << [id |-> "A", embedding |-> <<4, 3>>],
     [id |-> "B", embedding |-> <<3, 4>>],
     [id |-> "C", embedding |-> <<1, 0>>],
     [id |-> "D", embedding |-> <<0, 5>>] >>

\* GET /api/search?query=...: the list the backend returns, already ranked
KeywordHits(t) ==
  IF t.core = "alpha text"
  THEN << [id |-> "C", embedding |-> <<1, 0>>, similarity |-> 0],
          [id |-> "A", embedding |-> <<4, 3>>, similarity |-> 0] >>
  ELSE << [id |-> "D", embedding |-> <<0, 5>>, similarity |-> 0] >>

\* ------------------------------------------------------------------ ranking
\* Array.prototype.map / filter
RECURSIVE Score(_, _)
Score(queryEmbedding, embeddings) ==
  IF embeddings = <<>> THEN <<>>
  ELSE LET item == Head(embeddings)
       IN << [id |-> item.id, embedding |-> item.embedding,
              similarity |-> cosineSimilarity(queryEmbedding, item.embedding)] >>
          \o Score(queryEmbedding, Tail(embeddings))

\* a filter that drops the entries whose score equals the threshold
FilterAbove(items, t) == SelectSeq(items, LAMBDA item : item.similarity > t)

\* .filter(item => item.similarity >= threshold)
FilterAtLeast(items, t) == SelectSeq(items, LAMBDA item : item.similarity >= t)

\* an insertion that puts an entry before the entries of equal score
RECURSIVE InsertDesc_Unstable(_, _)
InsertDesc_Unstable(x, s) ==
  IF s = <<>> THEN <<x>>
  ELSE IF Head(s).similarity > x.similarity
       THEN <<Head(s)>> \o InsertDesc_Unstable(x, Tail(s))
       ELSE <<x>> \o s

\* Array.prototype.sort with (a, b) => b.similarity - a.similarity (stable)
RECURSIVE InsertDesc(_, _)
InsertDesc(x, s) ==
  IF s = <<>> THEN <<x>>
  ELSE IF Head(s).similarity >= x.similarity
       THEN <<Head(s)>> \o InsertDesc(x, Tail(s))
       ELSE <<x>> \o s

\* a chain without the .sort(...)
SortDesc_Unsorted(done, rest) == done \o rest

RECURSIVE SortDesc(_, _)
SortDesc(done, rest) ==
  IF rest = <<>> THEN done
  ELSE SortDesc(InsertDesc(Head(rest), done), Tail(rest))

Rank(queryEmbedding, embeddings, t) ==
  SortDesc(<<>>, FilterAtLeast(Score(queryEmbedding, embeddings), t))

\* =================================================== useSemanticSearch: state
VARIABLES
  query,        \* useState(initialQuery)
  results,      \* useState([])
  isLoading,    \* useState(false)
  error,        \* useState(null)
  searchType,   \* useState('semantic')
  threshold,    \* useState(0.7)
  cache,        \* cacheRef.current: Map from cache key to result list
  timer,        \* the lodash debounce of performSearch: pending call, if any
  mounted,      \* the component using the hook is mounted
  inflight,     \* performSearch invocations suspended at an await
  calls,        \* history: number of performSearch invocations so far
  settled,      \* history: cache keys stored by a search whose threshold
                \* was the current one when it completed
  sinceChange,  \* history: ms since `query` last changed, while a call is pending
  lastOp        \* history: the last operation and its outcome

searchVars ==
  << query, results, isLoading, error, searchType, threshold, cache, timer,
     mounted, inflight, calls, settled, sinceChange, lastOp >>

\* the backend the hook talks to
VARIABLES
  corpus        \* the indexed sections GET /api/embeddings returns now

docVars == << corpus >>

NoText == Txt(0, "<none>")

\* history record of the last operation: its kind, its outcome, the quiet
\* period a debounced search waited, whether the text of a search is shorter
\* than MIN_QUERY_LENGTH, and a flag that depends on the kind
Op(kind, outcome, quiet, short, flag) ==
  [kind |-> kind, outcome |-> outcome, quiet |-> quiet, short |-> short,
   flag |-> flag]

OtherOp == Op("other", "-", 0, FALSE, FALSE)

Min(a, b) == IF a < b THEN a ELSE b

\* ------------------------------------------------------------ lodash.debounce
Idle == [armed |-> FALSE, arg |-> NoText, elapsed |-> 0]
\* debounced(q): remember the last argument, restart the wait
Debounced(t, q) == [armed |-> TRUE, arg |-> q, elapsed |-> 0]
\* debounced.cancel()
Cancel(t) == Idle
\* the timer of the pending call has run its full wait since the last call
Due(t) == t.armed /\ t.elapsed >= DEBOUNCE_MS
Elapse(t) ==
  IF t.armed THEN [t EXCEPT !.elapsed = Min(t.elapsed + TickMs, DEBOUNCE_MS)]
  ELSE t

\* ----------------------------------------------------------------- the cache
\* a key that leaves the search mode out
CacheKey_TextOnly(mode, q) == <<"semantic", q>>

\* `${searchType}:${searchQuery}`
CacheKey(mode, q) == <<mode, q>>
CacheHas(c, k) == k \in DOMAIN c
CacheSet(c, k, v) == [x \in DOMAIN c \cup {k} |-> IF x = k THEN v ELSE c[x]]
EmptyCache == [x \in {} |-> <<>>]

\* ------------------------------------------------------------ performSearch
\* what a search computes from the remote responses
ComputedFrom(mode, q, thr, embeddings) ==
  IF mode = "semantic" THEN Rank(Embedding(q), embeddings, thr)
  ELSE KeywordHits(q)

\* from the sections indexed now
Computed(mode, q, thr) == ComputedFrom(mode, q, thr, corpus)

\* history: if the cache holds a list for the search, stored by a search that
\* ran under unchanged settings, it is the list that recomputing it now, under
\* the settings of this search, gives
UpToDate(mode, q, thr) ==
  (CacheHas(cache, CacheKey(mode, q)) /\ CacheKey(mode, q) \in settled)
    => cache[CacheKey(mode, q)] = Computed(mode, q, thr)

\* history: a search for another, non-blank text was started after invocation s
Supersede(pending, searchQuery) ==
  { [s EXCEPT !.stale = s.stale \/ (s.q # searchQuery /\ ~IsBlank(searchQuery))]
      : s \in pending }

\* The synchronous part of performSearch(searchQuery), for the render whose
\* searchType and threshold the callback closed over.
PerformSearch(kind, searchQuery, mode, thr, quiet, flag) ==
  /\ calls < MaxCalls
  /\ calls' = calls + 1
  /\ IF IsBlank(searchQuery)
     THEN /\ results' = <<>>
          /\ lastOp' = Op(kind, "blank", quiet, RawLength(searchQuery) < MIN_QUERY_LENGTH, flag)
          /\ inflight' = Supersede(inflight, searchQuery)
          /\ UNCHANGED << isLoading, error >>
     ELSE IF CacheHas(cache, CacheKey(mode, searchQuery))
     THEN /\ results' = cache[CacheKey(mode, searchQuery)]
          /\ lastOp' = Op(kind, "hit", quiet, RawLength(searchQuery) < MIN_QUERY_LENGTH, flag)
          /\ inflight' = Supersede(inflight, searchQuery)
          /\ UNCHANGED << isLoading, error >>
     ELSE /\ isLoading' = TRUE
          /\ error' = Null
          /\ inflight' = Supersede(inflight, searchQuery) \cup
               { [id |-> calls + 1, q |-> searchQuery, mode |-> mode,
                  thr |-> IF mode = "semantic" THEN thr ELSE 0,
                  pc |-> IF mode = "semantic" THEN "embed" ELSE "keyword",
                  emb |-> NoVector, stale |-> FALSE] }
          /\ lastOp' = Op(kind, "miss", quiet, RawLength(searchQuery) < MIN_QUERY_LENGTH, flag)
          /\ UNCHANGED results
  /\ UNCHANGED << searchType, threshold, cache, mounted, settled >>

\* a `search` that is the debounced function
Search_Debounced(text) ==
  /\ mounted
  /\ timer' = Debounced(timer, text)
  /\ sinceChange' = 0
  /\ lastOp' = Op("search", "queued", 0, FALSE, FALSE)
  /\ UNCHANGED << query, results, isLoading, error, searchType, threshold,
                  cache, mounted, inflight, calls, settled >>

\* search(text) called by the UI with the callback of the current render
Search(text) ==
  /\ mounted
  /\ PerformSearch("search", text, searchType, threshold, 0,
                   UpToDate(searchType, text, threshold))
  /\ UNCHANGED << query, timer, sinceChange >>

\* the debounce timer fires: the debounced function was created on the first
\* render and calls the performSearch of that render
DebounceFire ==
  /\ Due(timer)
  /\ PerformSearch("debounced", timer.arg, InitialSearchType, InitialThreshold,
                   sinceChange, timer.arg = query)
  /\ timer' = Idle
  /\ sinceChange' = 0
  /\ UNCHANGED query

\* time passes while a debounced call is pending
Tick ==
  /\ timer.armed
  /\ timer.elapsed < DEBOUNCE_MS
  /\ timer' = Elapse(timer)
  /\ sinceChange' = Min(sinceChange + TickMs, DEBOUNCE_MS)
  /\ UNCHANGED << query, results, isLoading, error, searchType, threshold,
                  cache, mounted, inflight, calls, settled, lastOp >>

\* --------------------------------------------------------- remote responses
\* a catch block that also resets the list
Fail_ClearsResults(s, msg) ==
  /\ error' = msg
  /\ isLoading' = FALSE
  /\ results' = <<>>
  /\ inflight' = inflight \ {s}
  /\ lastOp' = Op("failed", s.pc, 0, FALSE, s.stale)
  /\ UNCHANGED << cache, settled >>

\* a catch block that rethrows instead of recording the error
Fail_Rethrows(s, msg) ==
  /\ isLoading' = FALSE
  /\ inflight' = inflight \ {s}
  /\ lastOp' = Op("failed", s.pc, 0, FALSE, s.stale)
  /\ UNCHANGED << results, error, cache, settled >>

\* catch (err) { setError(...) } finally { setIsLoading(false) }
Fail(s, msg) ==
  /\ error' = msg
  /\ isLoading' = FALSE
  /\ inflight' = inflight \ {s}
  /\ lastOp' = Op("failed", s.pc, 0, FALSE, s.stale)
  /\ UNCHANGED << results, cache, settled >>

\* setResults(searchResults); cacheRef.current.set(cacheKey, searchResults)
Apply(s, searchResults) ==
  /\ results' = searchResults
  /\ cache' = CacheSet(cache, CacheKey(s.mode, s.q), searchResults)
  /\ settled' =
       IF s.mode = "semantic" => s.thr = threshold
       THEN settled \cup {CacheKey(s.mode, s.q)}
       ELSE settled \ {CacheKey(s.mode, s.q)}
  /\ isLoading' = FALSE
  /\ inflight' = inflight \ {s}
  /\ lastOp' = Op("applied", s.pc, 0, FALSE, s.stale)
  /\ UNCHANGED error

ErrorMessages == {"Search failed"}

\* A response is followed while the component is mounted: after the teardown
\* React drops the state updates of the continuation.
\* POST /api/embed settles
EmbedResponse(s, ok) ==
  /\ mounted
  /\ s \in inflight /\ s.pc = "embed"
  /\ IF ok
     THEN /\ inflight' = (inflight \ {s}) \cup
                 {[s EXCEPT !.pc = "corpus", !.emb = Embedding(s.q)]}
          /\ lastOp' = OtherOp
          /\ UNCHANGED << results, isLoading, error, cache, settled >>
     ELSE \E msg \in ErrorMessages : Fail(s, msg)
  /\ UNCHANGED << query, searchType, threshold, timer, mounted, calls,
                  sinceChange >>

\* GET /api/embeddings settles
CorpusResponse(s, ok) ==
  /\ mounted
  /\ s \in inflight /\ s.pc = "corpus"
  /\ IF ok
     THEN Apply(s, Rank(s.emb, corpus, s.thr))
     ELSE \E msg \in ErrorMessages : Fail(s, msg)
  /\ UNCHANGED << query, searchType, threshold, timer, mounted, calls,
                  sinceChange >>

\* a keyword branch that sends the list through the filter and the sort
KeywordResponse_Ranked(s, ok) ==
  /\ mounted
  /\ s \in inflight /\ s.pc = "keyword"
  /\ IF ok
     THEN Apply(s, SortDesc(<<>>, FilterAtLeast(KeywordHits(s.q), threshold)))
     ELSE \E msg \in ErrorMessages : Fail(s, msg)
  /\ UNCHANGED << query, searchType, threshold, timer, mounted, calls,
                  sinceChange >>

\* GET /api/search settles
KeywordResponse(s, ok) ==
  /\ mounted
  /\ s \in inflight /\ s.pc = "keyword"
  /\ IF ok
     THEN Apply(s, KeywordHits(s.q))
     ELSE \E msg \in ErrorMessages : Fail(s, msg)
  /\ UNCHANGED << query, searchType, threshold, timer, mounted, calls,
                  sinceChange >>

\* ------------------------------------------------------------------ setters
\* an effect that does not depend on `query`: the pending call is left alone
SetQuery_KeepsTimer(t) ==
  /\ mounted
  /\ t # query
  /\ query' = t
  /\ sinceChange' = 0
  /\ lastOp' = OtherOp
  /\ UNCHANGED << results, isLoading, error, searchType, threshold, cache,
                  timer, mounted, inflight, calls, settled >>

\* setQuery(t); the effect on [query] runs its cleanup (cancel) and calls
\* debouncedSearch(query) again
SetQuery(t) ==
  /\ mounted
  /\ t # query
  /\ query' = t
  /\ timer' = Debounced(Cancel(timer), t)
  /\ sinceChange' = 0
  /\ lastOp' = OtherOp
  /\ UNCHANGED << results, isLoading, error, searchType, threshold, cache,
                  mounted, inflight, calls, settled >>

SetSearchType(m) ==
  /\ mounted
  /\ m # searchType
  /\ searchType' = m
  /\ lastOp' = OtherOp
  /\ UNCHANGED << query, results, isLoading, error, threshold, cache, timer,
                  mounted, inflight, calls, settled, sinceChange >>

SetThreshold(t) ==
  /\ mounted
  /\ t # threshold
  /\ threshold' = t
  /\ lastOp' = OtherOp
  /\ UNCHANGED << query, results, isLoading, error, searchType, cache, timer,
                  mounted, inflight, calls, settled, sinceChange >>

\* The clear operations are followed where they change something.
\* clearResults: () => setResults([])
ClearResults ==
  /\ mounted
  /\ results # <<>>
  /\ results' = <<>>
  /\ lastOp' = OtherOp
  /\ UNCHANGED << query, isLoading, error, searchType, threshold, cache, timer,
                  mounted, inflight, calls, settled, sinceChange >>

\* clearError: () => setError(null)
ClearError ==
  /\ mounted
  /\ error # Null
  /\ error' = Null
  /\ lastOp' = OtherOp
  /\ UNCHANGED << query, results, isLoading, searchType, threshold, cache,
                  timer, mounted, inflight, calls, settled, sinceChange >>

\* clearCache: () => cacheRef.current.clear()
ClearCache ==
  /\ mounted
  /\ cache # EmptyCache
  /\ cache' = EmptyCache
  /\ settled' = {}
  /\ lastOp' = OtherOp
  /\ UNCHANGED << query, results, isLoading, error, searchType, threshold,
                  timer, mounted, inflight, calls, sinceChange >>

\* a teardown without the cleanup
Unmount_NoCancel ==
  /\ mounted
  /\ mounted' = FALSE
  /\ lastOp' = Op("unmount", "-", 0, FALSE, timer.armed)
  /\ UNCHANGED << query, results, isLoading, error, searchType, threshold,
                  cache, timer, inflight, calls, settled, sinceChange >>

\* the component is torn down: the effect's cleanup runs debouncedSearch.cancel()
Unmount ==
  /\ mounted
  /\ mounted' = FALSE
  /\ timer' = Cancel(timer)
  /\ sinceChange' = 0
  /\ lastOp' = Op("unmount", "-", 0, FALSE, timer.armed)
  /\ UNCHANGED << query, results, isLoading, error, searchType, threshold,
                  cache, inflight, calls, settled >>

\* ------------------------------------------------------------------- upload
\* the sections of the documents, in the order they are indexed: each
\* uploaded document adds two
Indexed(n) == SubSeq(Corpus, 1, n)

\* Home.handleFileChange with a PDF file: setPdfFile(file), clearSelections(),
\* clearResults(); the backend indexes the sections of the document
Upload ==
  /\ mounted
  /\ Len(corpus) < Len(Corpus)
  /\ corpus' = Indexed(Len(corpus) + 2)
  /\ results' = <<>>
  /\ lastOp' = Op("upload", "-", 0, FALSE, FALSE)
  /\ UNCHANGED << query, isLoading, error, searchType, threshold, cache, timer,
                  mounted, inflight, calls, settled, sinceChange >>

\* ================================================= SelectionProvider: state
\* (the documentService and the selectionService variants of the provider
\* have the same handleTextSelection, fetchRelatedSections and clearSelection)
VARIABLES
  selectedText,      \* useState('')
  selectionContext,  \* useState(null): the documentId of the context, or Null
  relatedSections,   \* useState([])
  isLoadingRelated,  \* useState(false)
  selTimers,         \* pending setTimeout callbacks of handleTextSelection
  selInflight,       \* fetchRelatedSections invocations awaiting the backend
  selEvents,         \* history: number of user events so far
  selLast,           \* history: the last operation of the provider
  clearedAt          \* history: the event that was the last clearSelection()
                     \* call, or 0 once handleTextSelection was called since

selVars ==
  << selectedText, selectionContext, relatedSections, isLoadingRelated,
     selTimers, selInflight, selEvents, selLast, clearedAt >>

\* the auto-fetch delay of handleTextSelection
AUTO_FETCH_MS == 500
\* text.trim().length < 3 clears the selection
MIN_SELECTION_LENGTH == 3
\* text.trim().length >= 10 schedules the auto-fetch
MIN_FETCH_LENGTH == 10

EmptyText == Txt(0, "")
\* selections made in the viewer: none, lengths 2, 9, 10 (after trimming)
\* and 12
SelTexts ==
  { Txt(0, ""), Txt(0, "hi"), Txt(0, "short one"), Txt(1, "alpha text"),
    Txt(0, "beta passage") }
DocIds == {Null, "doc1"}

\* the list the backend returns for a selection
RelatedHits(text) ==
  IF text.core = "alpha text" THEN <<"sec-a1", "sec-a2">> ELSE <<"sec-b1">>

SelOp(kind, text, seq) == [kind |-> kind, text |-> text, seq |-> seq]

\* clearSelection()
ClearedSelection ==
  /\ selectedText' = EmptyText
  /\ selectionContext' = Null
  /\ relatedSections' = <<>>

\* setTimeout(() => fetchRelatedSections(text.trim(), context.documentId), 500)
SetTimeout(timers, text, docId, seq) ==
  timers \cup {[seq |-> seq, text |-> text, docId |-> docId, elapsed |-> 0]}

\* handleTextSelection(text, position, context)
HandleTextSelection(text, docId) ==
  /\ selEvents < MaxSelections
  /\ selEvents' = selEvents + 1
  /\ IF RawLength(text) = 0 \/ RawLength(Trim(text)) < MIN_SELECTION_LENGTH
     THEN /\ ClearedSelection
          /\ UNCHANGED selTimers
     ELSE /\ selectedText' = Trim(text)
          /\ selectionContext' = docId
          /\ selTimers' =
               IF RawLength(Trim(text)) >= MIN_FETCH_LENGTH /\ docId # Null
               THEN SetTimeout(selTimers, Trim(text), docId, selEvents + 1)
               ELSE selTimers
          /\ UNCHANGED relatedSections
  /\ selLast' = SelOp("select", Trim(text), selEvents + 1)
  /\ clearedAt' = 0
  /\ UNCHANGED << isLoadingRelated, selInflight >>

\* the synchronous part of fetchRelatedSections(text, currentDocId)
FetchRelatedSections(kind, text, docId, seq) ==
  /\ IF RawLength(text) = 0 \/ RawLength(text) < MIN_FETCH_LENGTH
     THEN /\ relatedSections' = <<>>
          /\ UNCHANGED << isLoadingRelated, selInflight >>
     ELSE /\ isLoadingRelated' = TRUE
          /\ selInflight' = selInflight \cup {[seq |-> seq, text |-> text]}
          /\ UNCHANGED relatedSections
  /\ selLast' = SelOp(kind, text, seq)
  /\ UNCHANGED << selectedText, selectionContext, clearedAt >>

\* time passes for the pending timers
SelTick ==
  /\ \E t \in selTimers : t.elapsed < AUTO_FETCH_MS
  /\ selTimers' =
       { [t EXCEPT !.elapsed = Min(t.elapsed + TickMs, AUTO_FETCH_MS)]
           : t \in selTimers }
  /\ UNCHANGED << selectedText, selectionContext, relatedSections,
                  isLoadingRelated, selInflight, selEvents, selLast,
                  clearedAt >>

\* a timer fires: timers of equal delay run in the order they were set
SelTimerFire(t) ==
  /\ t \in selTimers
  /\ t.elapsed >= AUTO_FETCH_MS
  /\ \A u \in selTimers : u.seq >= t.seq
  /\ selTimers' = selTimers \ {t}
  /\ FetchRelatedSections("autoFetch", t.text, t.docId, t.seq)
  /\ UNCHANGED selEvents

\* searchRelated(text, documentId) / fetchRelatedSections called by the UI
SearchRelated(text, docId) ==
  /\ selEvents < MaxSelections
  /\ selEvents' = selEvents + 1
  /\ FetchRelatedSections("searchRelated", text, docId, selEvents + 1)
  /\ UNCHANGED selTimers

\* a fetch without the catch and finally blocks
FetchResponse_Uncaught(s, ok) ==
  /\ s \in selInflight
  /\ selInflight' = selInflight \ {s}
  /\ relatedSections' = IF ok THEN RelatedHits(s.text) ELSE relatedSections
  /\ isLoadingRelated' = ~ok
  /\ selLast' = SelOp(IF ok THEN "fetched" ELSE "fetchFailed", s.text, s.seq)
  /\ UNCHANGED << selectedText, selectionContext, selTimers, selEvents,
                  clearedAt >>

\* the backend call settles: setRelatedSections(results || []) or, in the
\* catch block, setRelatedSections([]); finally setIsLoadingRelated(false)
FetchResponse(s, ok) ==
  /\ s \in selInflight
  /\ selInflight' = selInflight \ {s}
  /\ relatedSections' = IF ok THEN RelatedHits(s.text) ELSE <<>>
  /\ isLoadingRelated' = FALSE
  /\ selLast' = SelOp(IF ok THEN "fetched" ELSE "fetchFailed", s.text, s.seq)
  /\ UNCHANGED << selectedText, selectionContext, selTimers, selEvents,
                  clearedAt >>

\* clearSelection() called by the UI
ClearSelection ==
  /\ selEvents < MaxSelections
  /\ selEvents' = selEvents + 1
  /\ ClearedSelection
  /\ clearedAt' = selEvents + 1
  /\ selLast' = SelOp("clear", EmptyText, selEvents + 1)
  /\ UNCHANGED << isLoadingRelated, selTimers, selInflight >>

SelInit ==
  /\ selectedText = EmptyText
  /\ selectionContext = Null
  /\ relatedSections = <<>>
  /\ isLoadingRelated = FALSE
  /\ selTimers = {}
  /\ selInflight = {}
  /\ selEvents = 0
  /\ selLast = SelOp("init", EmptyText, 0)
  /\ clearedAt = 0

\* ===================================================== usePDFSelection: state
\* (the hook of hooks/usePDFSelection.js; the pdf.js variant has the same
\* clearSelections and removeSelection and adds a selection the same way)
VARIABLES
  selections,        \* useState([])
  currentSelection,  \* useState(null)
  clock,             \* Date.now()
  pdfEvents          \* history: number of events so far

pdfVars == << selections, currentSelection, clock, pdfEvents >>

\* null, as a selection
NullSelection == [id |-> 0, text |-> NoText]
\* event.data.selection
PdfTexts == { Txt(0, "hi"), Txt(0, "alpha text") }

\* the SELECTION_CHANGE listener, for an event with a selection
SelectionChange(text) ==
  /\ pdfEvents < MaxPdfEvents
  /\ pdfEvents' = pdfEvents + 1
  /\ LET newSelection == [id |-> clock, text |-> text]
     IN /\ selections' = Append(selections, newSelection)
        /\ currentSelection' = newSelection
  /\ UNCHANGED clock

\* a millisecond passes (followed once per event at most: what matters is
\* whether two events fall into the same millisecond)
ClockTick ==
  /\ clock <= pdfEvents
  /\ clock' = clock + 1
  /\ UNCHANGED << selections, currentSelection, pdfEvents >>

\* clearSelections()
ClearSelections ==
  /\ pdfEvents < MaxPdfEvents
  /\ pdfEvents' = pdfEvents + 1
  /\ selections' = <<>>
  /\ currentSelection' = NullSelection
  /\ UNCHANGED clock

\* removeSelection(id), for the id of a selection of the list
RemoveSelection(id) ==
  /\ pdfEvents < MaxPdfEvents
  /\ pdfEvents' = pdfEvents + 1
  /\ \E i \in 1..Len(selections) : selections[i].id = id
  /\ selections' = SelectSeq(selections, LAMBDA sel : sel.id # id)
  /\ UNCHANGED << currentSelection, clock >>

PdfInit ==
  /\ selections = <<>>
  /\ currentSelection = NullSelection
  /\ clock = 1
  /\ pdfEvents = 0

\* ============================== the entry points of a selection: state
\* One selection made in the viewer, as each component that applies a minimum
\* length sees it: PDFViewer.handleTextSelection, the tooltip effect of
\* SelectionHighlighter, PDFProvider.getRelevantSections, and
\* SelectionProvider.handleTextSelection (modelled above).
VARIABLES
  pickedText,   \* the selected text the components receive
  forwarded,    \* texts PDFViewer passed to onTextSelected
  showTooltip,  \* useState(false) of SelectionHighlighter
  queried,      \* texts getRelevantSections sent to the backend
  entryDone     \* history: the entry points that have handled the selection

entryVars == << pickedText, forwarded, showTooltip, queried, entryDone >>

\* selected.text.length > 10 in PDFViewer
VIEWER_LENGTH_OVER == 10
\* selectedText.length > 10 in SelectionHighlighter
TOOLTIP_LENGTH_OVER == 10
\* selectedText.length < 10 returns [] in getRelevantSections
RELEVANT_MIN_LENGTH == 10

\* selections of 0, 2, 9, 10, 11 and 12 characters, and two that start with
\* a blank
EntryTexts ==
  { Txt(0, ""), Txt(0, "hi"), Txt(0, "short one"), Txt(0, "alpha text"),
    Txt(0, "hello world"), Txt(0, "beta passage"), Txt(1, "short one"),
    Txt(1, "alpha text") }

\* PDFViewer.handleTextSelection(event) while selectionActive
ViewerHandleTextSelection ==
  /\ "viewer" \notin entryDone
  /\ entryDone' = entryDone \cup {"viewer"}
  /\ forwarded' =
       IF RawLength(pickedText) > VIEWER_LENGTH_OVER
       THEN Append(forwarded, pickedText)
       ELSE forwarded
  /\ UNCHANGED << pickedText, showTooltip, queried >>

\* the timer of the effect on [selectedText] of SelectionHighlighter fires
TooltipEffect ==
  /\ "tooltip" \notin entryDone
  /\ entryDone' = entryDone \cup {"tooltip"}
  /\ showTooltip' =
       (RawLength(pickedText) # 0 /\ RawLength(pickedText) > TOOLTIP_LENGTH_OVER)
  /\ UNCHANGED << pickedText, forwarded, queried >>

\* PDFProvider.getRelevantSections(selectedText, currentDocId), up to its
\* remote call
GetRelevantSections ==
  /\ "relevant" \notin entryDone
  /\ entryDone' = entryDone \cup {"relevant"}
  /\ queried' =
       IF RawLength(pickedText) = 0 \/ RawLength(pickedText) < RELEVANT_MIN_LENGTH
       THEN queried
       ELSE Append(queried, pickedText)
  /\ UNCHANGED << pickedText, forwarded, showTooltip >>

\* SelectionProvider.handleTextSelection(text, position, {documentId})
ProviderHandleTextSelection ==
  /\ "provider" \notin entryDone
  /\ entryDone' = entryDone \cup {"provider"}
  /\ HandleTextSelection(pickedText, "doc1")
  /\ UNCHANGED << pickedText, forwarded, showTooltip, queried >>

EntryInit ==
  /\ pickedText \in EntryTexts
  /\ forwarded = <<>>
  /\ showTooltip = FALSE
  /\ queried = <<>>
  /\ entryDone = {}

\* the state of these variables where no selection is followed
EntryIdle ==
  /\ pickedText = EmptyText
  /\ forwarded = <<>>
  /\ showTooltip = FALSE
  /\ queried = <<>>
  /\ entryDone = {}

\* ============================================== the ranking step on its own
\* embeddings.map(...).filter(...).sort(...) of performSearch, applied to a
\* query vector, a corpus and a threshold
VARIABLES
  rankQuery,       \* queryEmbedding
  rankEmbeddings,  \* response.data of GET /api/embeddings
  rankThreshold,   \* threshold
  rankScored,      \* the array .map(...) returns
  rankOut,         \* searchResults
  rankPc           \* "input", then "ranked" or, after a TypeError, "threw"

rankVars ==
  << rankQuery, rankEmbeddings, rankThreshold, rankScored, rankOut, rankPc >>

\* an entry of the array that is null instead of an object
NullItem == [id |-> Null, embedding |-> NoVector]

\* entries the backend may return: well-formed vectors (B2 repeats the vector
\* of B), and embeddings that are missing, of zero magnitude, of another
\* length, or empty
RankPool ==
  { [id |-> "A", embedding |-> <<4, 3>>],
    [id |-> "B", embedding |-> <<3, 4>>],
    [id |-> "B2", embedding |-> <<3, 4>>],
    [id |-> "C", embedding |-> <<1, 0>>],
    [id |-> "D", embedding |-> <<0, 5>>],
    [id |-> "E", embedding |-> NoVector],
    [id |-> "F", embedding |-> <<0, 0>>],
    [id |-> "G", embedding |-> <<1>>],
    [id |-> "H", embedding |-> <<>>],
    NullItem }

\* query vectors POST /api/embed may return, a missing one included
RankQueries == { <<3, 4>>, <<1, 0>>, <<0, 0>>, <<>>, NoVector }
\* positions of the slider: its minimum, 0.8 and its maximum
RankThresholds == { 0, 80, 100 }

\* arrays of up to MaxCorpus distinct entries
RankCorpora ==
  UNION { { c \in [1..n -> RankPool] : \A i, j \in 1..n : c[i] = c[j] => i = j }
            : n \in 0..MaxCorpus }

RankInit ==
  /\ rankQuery \in RankQueries
  /\ rankEmbeddings \in RankCorpora
  /\ rankThreshold \in RankThresholds
  /\ rankScored = <<>>
  /\ rankOut = <<>>
  /\ rankPc = "input"

\* the state of the ranking variables where the ranking step is not followed
RankIdle ==
  /\ rankQuery = NoVector
  /\ rankEmbeddings = <<>>
  /\ rankThreshold = InitialThreshold
  /\ rankScored = <<>>
  /\ rankOut = <<>>
  /\ rankPc = "input"

\* the chain runs; reading item.embedding of a null entry throws
RankStep ==
  /\ rankPc = "input"
  /\ IF \E i \in 1..Len(rankEmbeddings) : rankEmbeddings[i] = NullItem
     THEN /\ rankPc' = "threw"
          /\ UNCHANGED << rankScored, rankOut >>
     ELSE /\ rankPc' = "ranked"
          /\ rankScored' = Score(rankQuery, rankEmbeddings)
          /\ rankOut' = Rank(rankQuery, rankEmbeddings, rankThreshold)
  /\ UNCHANGED << rankQuery, rankEmbeddings, rankThreshold >>

\* ========================================================= specifications
\* the state after the first render and its effect: debouncedSearch(initialQuery)
SearchInit ==
  /\ query = InitialQuery
  /\ results = <<>>
  /\ isLoading = FALSE
  /\ error = Null
  /\ searchType = InitialSearchType
  /\ threshold = InitialThreshold
  /\ cache = EmptyCache
  /\ timer = Debounced(Idle, InitialQuery)
  /\ mounted = TRUE
  /\ inflight = {}
  /\ calls = 0
  /\ settled = {}
  /\ sinceChange = 0
  /\ lastOp = OtherOp

Init ==
  SearchInit /\ SelInit /\ RankIdle /\ PdfInit /\ EntryIdle /\ corpus = Corpus

\* the variables that the operations of one component leave alone
notHook == << selVars, rankVars, docVars, pdfVars, entryVars >>
notProvider == << searchVars, rankVars, docVars, pdfVars, entryVars >>
notPdf == << searchVars, selVars, rankVars, docVars, entryVars >>
notEntry == << searchVars, rankVars, docVars, pdfVars >>

\* the hook
Next ==
  \/ \E t \in Texts : SetQuery(t) /\ UNCHANGED notHook
  \/ \E m \in SearchTypes : SetSearchType(m) /\ UNCHANGED notHook
  \/ \E t \in Thresholds : SetThreshold(t) /\ UNCHANGED notHook
  \/ \E t \in SearchTexts :
       Search(t) /\ UNCHANGED notHook
  \/ Tick /\ UNCHANGED notHook
  \/ DebounceFire /\ UNCHANGED notHook
  \/ \E s \in inflight : \E ok \in BOOLEAN :
       EmbedResponse(s, ok) /\ UNCHANGED notHook
  \/ \E s \in inflight : \E ok \in BOOLEAN :
       CorpusResponse(s, ok) /\ UNCHANGED notHook
  \/ \E s \in inflight : \E ok \in BOOLEAN :
       KeywordResponse(s, ok) /\ UNCHANGED notHook
  \/ ClearResults /\ UNCHANGED notHook
  \/ ClearError /\ UNCHANGED notHook
  \/ ClearCache /\ UNCHANGED notHook
  \/ Unmount /\ UNCHANGED notHook

vars == << searchVars, selVars, rankVars, docVars, pdfVars, entryVars >>

Spec == Init /\ [][Next]_vars

\* the provider
SelNext ==
  \/ \E text \in SelTexts : \E docId \in DocIds :
       HandleTextSelection(text, docId) /\ UNCHANGED notProvider
  \/ SelTick /\ UNCHANGED notProvider
  \/ \E t \in selTimers : SelTimerFire(t) /\ UNCHANGED notProvider
  \/ \E text \in SelTexts : \E docId \in DocIds :
       SearchRelated(text, docId) /\ UNCHANGED notProvider
  \/ \E s \in selInflight : \E ok \in BOOLEAN :
       FetchResponse(s, ok) /\ UNCHANGED notProvider
  \/ ClearSelection /\ UNCHANGED notProvider
SelSpec == Init /\ [][SelNext]_vars

\* the ranking step, for every query vector, corpus and threshold of the model
RankSpecInit ==
  SearchInit /\ SelInit /\ RankInit /\ PdfInit /\ EntryIdle /\ corpus = Corpus
RankNext ==
  RankStep /\ UNCHANGED << searchVars, selVars, docVars, pdfVars, entryVars >>
RankSpec == RankSpecInit /\ [][RankNext]_vars

\* the hook in semantic mode at the initial threshold, from a session that
\* starts before any document is indexed, with the uploads
DocInit ==
  SearchInit /\ SelInit /\ RankIdle /\ PdfInit /\ EntryIdle /\ corpus = <<>>
DocNext ==
  \/ \E t \in Texts : SetQuery(t) /\ UNCHANGED notHook
  \/ \E t \in Texts : Search(t) /\ UNCHANGED notHook
  \/ Tick /\ UNCHANGED notHook
  \/ DebounceFire /\ UNCHANGED notHook
  \/ \E s \in inflight : \E ok \in BOOLEAN :
       EmbedResponse(s, ok) /\ UNCHANGED notHook
  \/ \E s \in inflight : \E ok \in BOOLEAN :
       CorpusResponse(s, ok) /\ UNCHANGED notHook
  \/ Upload /\ UNCHANGED << selVars, rankVars, pdfVars, entryVars >>
  \/ ClearError /\ UNCHANGED notHook
DocSpec == DocInit /\ [][DocNext]_vars

\* usePDFSelection
PdfNext ==
  \/ \E text \in PdfTexts :
       SelectionChange(text) /\ UNCHANGED notPdf
  \/ ClockTick /\ UNCHANGED notPdf
  \/ ClearSelections /\ UNCHANGED notPdf
  \/ \E i \in 1..Len(selections) :
       RemoveSelection(selections[i].id) /\ UNCHANGED notPdf
PdfSpec == Init /\ [][PdfNext]_vars

\* one selection, through every component that applies a minimum length
EntrySpecInit ==
  SearchInit /\ SelInit /\ RankIdle /\ PdfInit /\ EntryInit /\ corpus = Corpus
EntryNext ==
  \/ ViewerHandleTextSelection /\ UNCHANGED << notEntry, selVars >>
  \/ TooltipEffect /\ UNCHANGED << notEntry, selVars >>
  \/ GetRelevantSections /\ UNCHANGED << notEntry, selVars >>
  \/ ProviderHandleTextSelection /\ UNCHANGED notEntry
EntrySpec == EntrySpecInit /\ [][EntryNext]_vars

\* ====================================================== claims on the hook
\* the lists a search can compute, by mode, text and threshold
ComputedLists ==
  [m \in SearchTypes, x \in Texts, t \in Thresholds |->
     ComputedFrom(m, x, t, Corpus)]

\* C1: the response of a search that was superseded by a search for another
\* text is never applied to `results`.
C1_StaleResponseNeverApplied ==
  ~(lastOp.kind = "applied" /\ lastOp.flag)

\* C2: a search in semantic mode never shows a list that an earlier search,
\* completed under unchanged settings, cached for another threshold: what it
\* shows from the cache is the ranking at the current threshold, with every
\* entry of similarity >= threshold and no other (a changed threshold makes
\* the repeated search a miss).
C2_ThresholdChangeIsCacheMiss ==
  (lastOp.kind = "search" /\ lastOp.outcome = "hit" /\ searchType = "semantic")
    => lastOp.flag

\* C3: every cache entry under (mode, text) holds a list computed in that mode
\* for that text, and a search answered from the cache shows a list computed
\* in the current mode.
C3_CacheKeyedByMode ==
  /\ \A k \in DOMAIN cache :
       /\ k[1] \in SearchTypes /\ k[2] \in Texts
       /\ \E t \in Thresholds : cache[k] = ComputedLists[k[1], k[2], t]
  /\ (lastOp.kind = "search" /\ lastOp.outcome = "hit")
       => \E x \in Texts, t \in Thresholds :
            results = ComputedLists[searchType, x, t]

\* C3 witness: the same text was searched in both modes and each search
\* stored its own entry
C3_Witness ==
  \E x \in Texts :
    /\ CacheHas(cache, CacheKey("semantic", x))
    /\ CacheHas(cache, CacheKey("keyword", x))
    /\ cache[CacheKey("semantic", x)] # cache[CacheKey("keyword", x)]

\* C4: a search that repeats an earlier search of the same text under the same
\* mode and threshold issues no second embedding call.
C4_RepeatedSearchIssuesNoCall ==
  ~ \E s1, s2 \in inflight :
      /\ s1.id < s2.id
      /\ s1.q = s2.q /\ s1.mode = s2.mode /\ s1.thr = s2.thr
      /\ s2.mode = "semantic"

\* C5: at most one embedding request is outstanding per text.
C5_OneEmbeddingRequestPerText ==
  \A s1, s2 \in inflight :
    (s1.pc = "embed" /\ s2.pc = "embed" /\ s1.q = s2.q) => s1 = s2

\* C6: a search for a text shorter than MIN_QUERY_LENGTH leaves `results`
\* empty and issues no remote call.
C6_ShortTextRejected ==
  (lastOp.kind = "search" /\ lastOp.short)
    => (results = <<>> /\ lastOp.outcome # "miss")

\* C7: a failing remote call sets `error` and leaves `results` as it was.
C7_FailureKeepsResults ==
  [][(lastOp'.kind = "failed" /\ inflight' # inflight)
       => (results' = results /\ error' # Null)]_vars

\* C7 witness: a search has failed while a list of an earlier search is shown
C7_Witness ==
  lastOp.kind = "failed" /\ results # <<>> /\ error # Null

\* C8: the pending debounced call carries the current `query` and has waited
\* exactly as long as `query` has been unchanged; it fires only after the
\* full quiet period and with the text `query` then has.
C8_DebounceQuietPeriod ==
  /\ timer.armed => (timer.arg = query /\ timer.elapsed = sinceChange)
  /\ lastOp.kind = "debounced"
       => (lastOp.quiet >= DEBOUNCE_MS /\ lastOp.flag)

\* C8 witness: a debounced search of a text typed after the first render fired
C8_Witness ==
  lastOp.kind = "debounced" /\ lastOp.outcome = "miss" /\ query # InitialQuery

\* C9: after the teardown no debounced call is pending and none fires.
C9_TeardownCancelsTimer ==
  ~mounted => (~timer.armed /\ lastOp.kind = "unmount")

\* C9 witness: the teardown came while a debounced search of a text was pending
C9_Witness ==
  ~mounted /\ lastOp.flag /\ ~IsBlank(query)

\* ================================================== claims on the provider
\* C10: a new qualifying selection clears the pending auto-fetch timer of the
\* earlier one: no timers of two different selections are pending together,
\* and no timer fires for a selection that a later qualifying selection of
\* another text has superseded.
C10_SupersededTimerCleared ==
  /\ \A t1, t2 \in selTimers : t1.text = t2.text
  /\ selLast.kind = "autoFetch"
       => \A u \in selTimers : u.text = selLast.text \/ u.seq < selLast.seq

\* C11: a selection whose trimmed text is shorter than MIN_QUERY_LENGTH is
\* rejected: handleTextSelection schedules no fetch for it and leaves
\* `relatedSections` empty.
C11_ShortSelectionRejected ==
  (selLast.kind = "select" /\ RawLength(selLast.text) < MIN_QUERY_LENGTH)
    => /\ relatedSections = <<>>
       /\ \A t \in selTimers : t.seq # selLast.seq

\* ================================================ claims on the ranking step
\* position of the entry with identifier id in the corpus
RankPos(id) ==
  CHOOSE i \in 1..Len(rankEmbeddings) : rankEmbeddings[i].id = id

\* C12: the ranking keeps a corpus entry iff its similarity to the query
\* vector is >= threshold: a score equal to the threshold is kept, every
\* lower one is dropped.
C12_ThresholdBoundaryInclusive ==
  rankPc = "ranked" =>
    /\ \A i \in 1..Len(rankEmbeddings) :
         (cosineSimilarity(rankQuery, rankEmbeddings[i].embedding) >= rankThreshold)
           <=> (\E j \in 1..Len(rankOut) : rankOut[j].id = rankEmbeddings[i].id)
    /\ \A j \in 1..Len(rankOut) : rankOut[j].similarity >= rankThreshold

\* C12 witness: an entry scoring exactly the threshold is in the list and
\* an entry scoring less is not
C12_Witness ==
  /\ rankPc = "ranked"
  /\ rankThreshold > 0
  /\ \E j \in 1..Len(rankOut) : rankOut[j].similarity = rankThreshold
  /\ \E i \in 1..Len(rankScored) :
       /\ rankScored[i].similarity < rankThreshold
       /\ \A j \in 1..Len(rankOut) : rankOut[j].id # rankScored[i].id

\* C13: the scores of the result list are non-increasing from first to last.
C13_ScoresNonIncreasing ==
  rankPc = "ranked" =>
    \A j \in 1..Len(rankOut), k \in 1..Len(rankOut) :
      j < k => rankOut[j].similarity >= rankOut[k].similarity

\* C13 witness: the list has entries of different scores that the corpus
\* held in the opposite order
C13_Witness ==
  /\ rankPc = "ranked"
  /\ \E j \in 1..Len(rankOut), k \in 1..Len(rankOut) :
       /\ j < k
       /\ rankOut[j].similarity > rankOut[k].similarity
       /\ RankPos(rankOut[j].id) > RankPos(rankOut[k].id)

\* C14: entries of equal score keep the relative order they have in the
\* corpus.
C14_StableTieBreak ==
  rankPc = "ranked" =>
    \A j \in 1..Len(rankOut), k \in 1..Len(rankOut) :
      (j < k /\ rankOut[j].similarity = rankOut[k].similarity)
        => RankPos(rankOut[j].id) < RankPos(rankOut[k].id)

\* C14 witness: two entries tie behind an entry that stood after them in
\* the corpus
C14_Witness ==
  /\ rankPc = "ranked"
  /\ Len(rankOut) = 3
  /\ rankOut[2].similarity = rankOut[3].similarity
  /\ rankOut[1].similarity > rankOut[2].similarity
  /\ RankPos(rankOut[1].id) > RankPos(rankOut[3].id)

\* a vector cosineSimilarity must answer with 0: missing, empty or of zero
\* magnitude
Degenerate(v) ==
  v = NoVector \/ \A i \in 1..Len(v) : v[i] = 0

\* C15: an entry scores 0 when its embedding or the query vector is missing,
\* empty or of zero magnitude, or when their lengths differ, and such an
\* embedding never makes the ranking throw.
C15_MalformedEmbeddingScoresZero ==
  /\ rankPc = "threw" =>
       \E i \in 1..Len(rankEmbeddings) : rankEmbeddings[i] = NullItem
  /\ rankPc = "ranked" =>
       /\ Len(rankScored) = Len(rankEmbeddings)
       /\ \A i \in 1..Len(rankEmbeddings) :
            ( \/ Degenerate(rankQuery)
              \/ Degenerate(rankEmbeddings[i].embedding)
              \/ Len(rankQuery) # Len(rankEmbeddings[i].embedding) )
              => rankScored[i].similarity = 0

\* C15 witness: a corpus with a missing and a wrong-length embedding was
\* ranked, and a well-formed entry of it scored above 0
C15_Witness ==
  /\ rankPc = "ranked"
  /\ \E i \in 1..Len(rankEmbeddings) : rankEmbeddings[i].embedding = NoVector
  /\ \E i \in 1..Len(rankEmbeddings) : rankEmbeddings[i].embedding = <<1>>
  /\ \E i \in 1..Len(rankScored) : rankScored[i].similarity > 0

\* ============================================ further claims on the hook
\* C16: a semantic search answered with an empty corpus ends with
\* results = [] and error = null, and a search whose remote call fails ends
\* with error non-null.
C16_EmptyCorpusIsNotAnError ==
  /\ (lastOp.kind = "applied" /\ corpus = <<>>)
       => (results = <<>> /\ error = Null)
  /\ lastOp.kind = "failed" => error # Null

C18_ClearResultsClearsCache ==
  [][ClearResults => cache' = EmptyCache]_vars

\* C19: with the uploads changing the corpus, a search answered from the
\* cache shows the list the sections indexed now give, never one cached
\* before an upload.
C19_UploadInvalidatesCache ==
  (lastOp.kind = "search" /\ lastOp.outcome = "hit" /\ corpus # <<>>)
    => lastOp.flag

\* C20: a manual search of a non-blank text that is not cached sets isLoading
\* and has its remote call in flight in the same step, whatever the state of
\* the debounce timer, which it leaves as it is.
C20_ManualSearchBypassesDebounce ==
  [][\A t \in Texts :
       ( /\ lastOp'.kind = "search"
         /\ ~IsBlank(t) /\ ~CacheHas(cache, CacheKey(searchType, t))
         /\ Search(t) )
         => /\ isLoading'
            /\ timer' = timer
            /\ \E s \in inflight' \ inflight :
                 s.q = t /\ s.pc \in {"embed", "keyword"}]_vars

\* C20 witness: a manual search has its call in flight while a debounced
\* search of another text is still waiting
C20_Witness ==
  /\ lastOp.kind = "search" /\ lastOp.outcome = "miss"
  /\ isLoading
  /\ timer.armed /\ timer.elapsed < DEBOUNCE_MS /\ ~IsBlank(timer.arg)
  /\ \E s \in inflight : s.id = calls /\ s.q # timer.arg

\* C21: no failure of a remote call escapes the search: whichever request
\* failed, the failing step records a message in `error` and resets
\* isLoading.
C21_RemoteFailureIsCaught ==
  lastOp.kind = "failed" =>
    /\ lastOp.outcome \in {"embed", "corpus", "keyword"}
    /\ error \in ErrorMessages
    /\ ~isLoading

\* C21 witness: the corpus fetch of a search failed, after its embedding
\* request had succeeded
C21_Witness ==
  lastOp.kind = "failed" /\ lastOp.outcome = "corpus" /\ error # Null

\* C22: isLoading is true while a search awaits a remote response, and false
\* when none does.
C22_LoadingWhileInFlight ==
  mounted => (isLoading <=> inflight # {})

\* C23: a search fired by the debounce timer runs under the search mode and
\* the threshold that are current when it fires.
C23_DebouncedSearchUsesCurrentSettings ==
  (lastOp.kind = "debounced" /\ lastOp.outcome = "miss")
    => \E s \in inflight :
         /\ s.id = calls
         /\ s.mode = searchType
         /\ s.mode = "semantic" => s.thr = threshold

\* C24: after a search that ends by applying a list to `results`, from the
\* remote side or from the cache, `error` is null.
C24_NoErrorBesideAppliedResults ==
  ( \/ lastOp.kind = "applied"
    \/ (lastOp.kind \in {"search", "debounced"} /\ lastOp.outcome = "hit") )
    => error = Null

\* C25: a failing search leaves the cache as it was, and the cache holds no
\* entry for its mode and text afterwards, so that the next search of the
\* text is a miss.
C25_FailedSearchLeavesNoEntry ==
  [][\A s \in inflight :
       (lastOp'.kind = "failed" /\ s \notin inflight')
         => /\ cache' = cache
            /\ ~CacheHas(cache', CacheKey(s.mode, s.q))]_vars

\* C30: a search of an empty or blank-only text, manual or debounced, empties
\* `results` and leaves isLoading, error, the cache and the calls in flight
\* as they are.
C30_BlankSearchOnlyClearsResults ==
  [][\A t \in SearchTexts :
       ( /\ lastOp'.kind \in {"search", "debounced"}
         /\ Len(t.core) = 0
         /\ Search(t) \/ (timer.arg = t /\ DebounceFire) )
         => /\ results' = <<>>
            /\ isLoading' = isLoading
            /\ error' = error
            /\ cache' = cache
            /\ inflight' = inflight]_vars

\* C30 witness: a blank search was made while the call of an earlier search
\* was in flight
C30_Witness ==
  /\ lastOp.kind = "search" /\ lastOp.outcome = "blank"
  /\ results = <<>>
  /\ inflight # {}
  /\ isLoading

\* ========================================== further claims on the provider
\* C26: after clearSelection() no fetch that was scheduled or started before
\* it puts sections into `relatedSections`, which stays empty while no
\* selection is stored.
C26_ClearedSelectionStaysEmpty ==
  ( /\ clearedAt > 0
    /\ selLast.kind \in {"fetched", "autoFetch"}
    /\ selLast.seq < clearedAt )
    => (relatedSections = <<>> /\ \A s \in selInflight : s.seq # selLast.seq)

\* C27: fetchRelatedSections issues a remote call only for a text of at
\* least MIN_FETCH_LENGTH characters; when the call completes isLoadingRelated
\* is false, and after a failure `relatedSections` is empty.
C27_FetchAlwaysSettles ==
  /\ \A s \in selInflight : RawLength(s.text) >= MIN_FETCH_LENGTH
  /\ ( /\ selLast.kind \in {"searchRelated", "autoFetch"}
       /\ RawLength(selLast.text) < MIN_FETCH_LENGTH )
       => \A s \in selInflight : s.seq # selLast.seq
  /\ selLast.kind \in {"fetched", "fetchFailed"} => ~isLoadingRelated
  /\ selLast.kind = "fetchFailed" => relatedSections = <<>>

\* C27 witness: the fetch for a text of MIN_FETCH_LENGTH characters or more,
\* started after an earlier event, failed
C27_Witness ==
  /\ selLast.kind = "fetchFailed"
  /\ RawLength(selLast.text) >= MIN_FETCH_LENGTH
  /\ selLast.seq > 1
  /\ ~isLoadingRelated
  /\ relatedSections = <<>>

\* ================================================ claims on usePDFSelection
\* C28: currentSelection is null or a selection of the `selections` list.
C28_CurrentSelectionIsListed ==
  \/ currentSelection = NullSelection
  \/ \E i \in 1..Len(selections) : selections[i] = currentSelection

\* ============================================= claims on the entry points
\* C29: a selection of exactly MIN_QUERY_LENGTH characters is accepted by
\* every entry point: PDFViewer forwards it, SelectionHighlighter shows the
\* tooltip, SelectionProvider schedules the auto-fetch and
\* getRelevantSections queries the backend.
C29_SameBoundaryEverywhere ==
  (pickedText.lead = 0 /\ Len(pickedText.core) = MIN_QUERY_LENGTH) =>
    /\ "viewer" \in entryDone => forwarded = << pickedText >>
    /\ "tooltip" \in entryDone => showTooltip
    /\ "provider" \in entryDone => \E t \in selTimers : t.text = pickedText
    /\ "relevant" \in entryDone => queried = << pickedText >>

====
